---- MODULE Spec2Model ----
(***************************************************************************)
(* Model of the coordination facade of agent-coord-mcp as installed by     *)
(* scripts/fix_mcp_to_http.py: every MCP tool action first calls the       *)
(* remote HTTP API and, when the fetch or the parsing of the response      *)
(* throws, falls back to the in-memory store of its own process.           *)
(*                                                                         *)
(* A facade call is two steps: the call (validation, the request and the   *)
(* remote backend's atomic handling of it) and the return (the response    *)
(* arrives or the fetch throws, the handler computes its result, running   *)
(* the local fallback in the catch branch).  Calls of different agents     *)
(* interleave between the two steps.                                       *)
(***************************************************************************)
EXTENDS Integers, Sequences, FiniteSets, TLC

\* ---------------------------------------------------------------- bounds
MaxTime == 2
MaxTasks == 2
MaxCalls == 2
MaxOps == 4
MaxCycles == 3
MaxRuns == 2

\* ---------------------------------------------------------------- domains
Agents == {"X", "Y"}
Procs == {"p1", "p2"}
\* The process that serves the calls of agents sharing one MCP server.
Shared == {"p1"}
Backends == {"remote"} \cup Procs
Whats == {"module-A"}
Paths == {"src/index.ts"}
ZoneIds == {"zone-1"}
ZonePaths == {"src/", "api/"}
Outcomes == {"ok", "unreachable", "unparsable", "error"}

\* Age (in clock ticks) beyond which a claim is stale.
StaleThreshold == 1

VARIABLES now, remote, local, pending, last, hist, race, calls, poll, files

vars == <<now, remote, local, pending, last, hist, race, calls, poll, files>>

\* ---------------------------------------------------------------- values
EmptyMap == [k \in {} |-> 0]

EmptyStore == [claims |-> EmptyMap, locks |-> EmptyMap, zones |-> EmptyMap, tasks |-> <<>>]

NoCall == [op |-> "idle"]

NoResult == [op |-> "none"]

Put(m, k, v) == [x \in (DOMAIN m) \cup {k} |-> IF x = k THEN v ELSE m[x]]

Drop(m, k) == [x \in (DOMAIN m) \ {k} |-> m[x]]

\* The response of a fetch as the handler sees it: thrown is TRUE when the
\* fetch or res.json() throws.
Thrown == [thrown |-> TRUE, status |-> 0, data |-> [none |-> TRUE]]

Answer(status, data) == [thrown |-> FALSE, status |-> status, data |-> data]

\* ------------------------------------------------------- ClaimRegistry
IsStale(c, t) == t - c.since > StaleThreshold

\* store.checkClaim(what): the current claim with its derived stale flag.
CheckClaim(claims, what, t) ==
    IF what \in DOMAIN claims
    THEN [found |-> TRUE, by |-> claims[what].by, since |-> claims[what].since,
          stale |-> IsStale(claims[what], t)]
    ELSE [found |-> FALSE]

\* store.claim(what, by, description): installs {what, by, since = now}; a
\* re-claim of a live claim by its owner leaves the registry as it is.
StoreClaim(claims, what, by, t) ==
    IF what \in DOMAIN claims /\ claims[what].by = by /\ ~IsStale(claims[what], t)
    THEN claims
    ELSE Put(claims, what, [by |-> by, since |-> t])

\* store.releaseClaim(what, by): removes the claim only if held by `by`.
ReleaseClaimOk(claims, what, by) == what \in DOMAIN claims /\ claims[what].by = by

StoreReleaseClaim(claims, what, by) ==
    IF ReleaseClaimOk(claims, what, by) THEN Drop(claims, what) ELSE claims

\* store.listClaims(includeStale)
StoreListClaims(claims, includeStale, t) ==
    {[what |-> w, by |-> claims[w].by, since |-> claims[w].since,
      stale |-> IsStale(claims[w], t)] :
        w \in {x \in DOMAIN claims : includeStale \/ ~IsStale(claims[x], t)}}

\* -------------------------------------------------------- LockRegistry
\* An optional argument: JavaScript's `args.f || dflt`.
Opt(args, f, dflt) == IF f \in DOMAIN args THEN args[f] ELSE dflt

\* store.acquireLock(resourcePath, lockedBy, resourceType, reason): the lock,
\* or {error} when another agent holds the path, however old its lock is.
LockHeld(locks, resourcePath, lockedBy) ==
    resourcePath \in DOMAIN locks /\ locks[resourcePath].lockedBy # lockedBy

NewLock(resourcePath, lockedBy, resourceType, reason, t) ==
    [resourcePath |-> resourcePath, lockedBy |-> lockedBy, resourceType |-> resourceType,
     reason |-> reason, acquiredAt |-> t]

StoreAcquireLock(locks, resourcePath, lockedBy, resourceType, reason, t) ==
    IF LockHeld(locks, resourcePath, lockedBy)
    THEN [result |-> [error |-> "locked", lockedBy |-> locks[resourcePath].lockedBy],
          locks |-> locks]
    ELSE [result |-> NewLock(resourcePath, lockedBy, resourceType, reason, t),
          locks |-> Put(locks, resourcePath,
                        NewLock(resourcePath, lockedBy, resourceType, reason, t))]

\* store.releaseLock(resourcePath, by): removes the lock only if held by `by`.
ReleaseLockOk(locks, resourcePath, by) ==
    resourcePath \in DOMAIN locks /\ locks[resourcePath].lockedBy = by

StoreReleaseLock(locks, resourcePath, by) ==
    IF ReleaseLockOk(locks, resourcePath, by) THEN Drop(locks, resourcePath) ELSE locks

\* -------------------------------------------------------- ZoneRegistry
\* store.claimZone(zoneId, path, owner, description): the zone, or {error}
\* when the zone exists under another owner; the owner's own re-claim
\* updates it.
ZoneTaken(zones, zoneId, owner) == zoneId \in DOMAIN zones /\ zones[zoneId].owner # owner

NewZone(zoneId, path, owner, description) ==
    [zoneId |-> zoneId, path |-> path, owner |-> owner, description |-> description]

StoreClaimZone(zones, zoneId, path, owner, description) ==
    IF ZoneTaken(zones, zoneId, owner)
    THEN [result |-> [error |-> "zone taken", owner |-> zones[zoneId].owner],
          zones |-> zones]
    ELSE [result |-> NewZone(zoneId, path, owner, description),
          zones |-> Put(zones, zoneId, NewZone(zoneId, path, owner, description))]

StoreListZones(zones) == {zones[z] : z \in DOMAIN zones}

\* -------------------------------------------------------- TaskRegistry
Undefined == "undefined"

\* store.createTask(fields): the task with a new id.
StoreCreateTask(tasks, fields, t) ==
    LET task == fields @@ [id |-> Len(tasks) + 1, createdAt |-> t] IN
    [task |-> task, tasks |-> Append(tasks, task)]

\* The task state machine: todo -> in_progress -> done, blocked reachable
\* from todo and in_progress and left for in_progress.
TaskStatuses == {"todo", "in_progress", "done", "blocked"}

ValidTransition_Reopens(from, to) == from # to

ValidTransition(from, to) ==
    \/ from = "todo" /\ to \in {"in_progress", "blocked"}
    \/ from = "in_progress" /\ to \in {"done", "blocked"}
    \/ from = "blocked" /\ to = "in_progress"

\* The status update of the task registry: the updated task, or {error}.
StoreUpdateTaskStatus(tasks, id, status) ==
    IF id \notin {tasks[i].id : i \in DOMAIN tasks}
    THEN [result |-> [error |-> "NotFound"], tasks |-> tasks]
    ELSE LET i == CHOOSE k \in DOMAIN tasks : tasks[k].id = id IN
         IF ValidTransition(tasks[i].status, status)
         THEN [result |-> [tasks[i] EXCEPT !.status = status],
               tasks |-> [tasks EXCEPT ![i].status = status]]
         ELSE [result |-> [error |-> "InvalidTransition"], tasks |-> tasks]

\* store.listTasks(status)
StoreListTasks(tasks, status) ==
    LET Match(task) == task.status = status IN
    IF status = Undefined THEN tasks ELSE SelectSeq(tasks, Match)

\* --------------------------------------------------- remote HTTP backend
\* POST /api/claims {what, by, description?} -> 201 {claimed, what, by} or
\* 409 {claimed: false, claimedBy, message}
RemotePostClaim(store, body, t) ==
    LET existing == CheckClaim(store.claims, body.what, t) IN
    IF existing.found /\ existing.by # body.by /\ ~existing.stale
    THEN [resp |-> Answer(409, [claimed |-> FALSE, claimedBy |-> existing.by,
                                message |-> "already claimed"]),
          store |-> store]
    ELSE [resp |-> Answer(201, [claimed |-> TRUE, what |-> body.what, by |-> body.by]),
          store |-> [store EXCEPT !.claims = StoreClaim(@, body.what, body.by, t)]]

\* GET /api/claims?includeStale=bool -> 200 {claims, count}; stale claims are
\* left out unless the query asks for them.
RemoteGetClaims(store, query, t) ==
    LET includeStale == "includeStale" \in DOMAIN query /\ query.includeStale
        claims == StoreListClaims(store.claims, includeStale, t) IN
    [resp |-> Answer(200, [claims |-> claims, count |-> Cardinality(claims)]),
     store |-> store]

\* DELETE /api/claims?what=&by= -> 200 {released: bool}
RemoteDeleteClaim(store, query) ==
    [resp |-> Answer(200, [released |-> ReleaseClaimOk(store.claims, query.what, query.by)]),
     store |-> [store EXCEPT !.claims = StoreReleaseClaim(@, query.what, query.by)]]

\* POST /api/locks {resourcePath, lockedBy, resourceType?, reason?} ->
\* 201 {lock} or 409 {error}
RemotePostLock(store, body, t) ==
    LET r == StoreAcquireLock(store.locks, body.resourcePath, body.lockedBy,
                              Opt(body, "resourceType", "file-lock"), body.reason, t) IN
    IF body.resourcePath = "" \/ body.lockedBy = ""
    THEN [resp |-> Answer(400, [error |-> "resourcePath and lockedBy required"]),
          store |-> store]
    ELSE IF "error" \in DOMAIN r.result
    THEN [resp |-> Answer(409, [error |-> r.result.error]), store |-> store]
    ELSE [resp |-> Answer(201, [lock |-> r.result]),
          store |-> [store EXCEPT !.locks = r.locks]]

\* DELETE /api/locks?resourcePath= -> 200 {released: bool}.  The request
\* names no agent: the lock on the path is removed whoever holds it.
RemoteDeleteLock(store, query) ==
    IF query.resourcePath = ""
    THEN [resp |-> Answer(400, [error |-> "resourcePath required"]), store |-> store]
    ELSE
    [resp |-> Answer(200, [released |-> query.resourcePath \in DOMAIN store.locks]),
     store |-> [store EXCEPT !.locks = Drop(@, query.resourcePath)]]

\* POST /api/zones {zoneId, path, owner, description?} -> 201 {zone} or 409 {error}
RemotePostZone(store, body) ==
    LET r == StoreClaimZone(store.zones, body.zoneId, body.path, body.owner,
                            body.description) IN
    IF "error" \in DOMAIN r.result
    THEN [resp |-> Answer(409, [error |-> r.result.error]), store |-> store]
    ELSE [resp |-> Answer(201, [zone |-> r.result]),
          store |-> [store EXCEPT !.zones = r.zones]]

\* GET /api/zones -> 200 {zones, count}
RemoteGetZones(store) ==
    LET zones == StoreListZones(store.zones) IN
    [resp |-> Answer(200, [zones |-> zones, count |-> Cardinality(zones)]),
     store |-> store]

\* POST /api/tasks {title, description?, priority?, createdBy, assignee?, tags?}
\* -> 201 {task}
RemotePostTask(store, body, t) ==
    LET r == StoreCreateTask(store.tasks, body, t) IN
    [resp |-> Answer(201, [task |-> r.task]), store |-> [store EXCEPT !.tasks = r.tasks]]

\* GET /api/tasks?status= -> 200 {tasks, count}
RemoteGetTasks(store, query) ==
    LET tasks == StoreListTasks(store.tasks, Opt(query, "status", Undefined)) IN
    [resp |-> Answer(200, [tasks |-> tasks, count |-> Len(tasks)]), store |-> store]

\* The remote backend handles one request atomically.
RemoteHandle(store, req, t) ==
    CASE req.route = "POST /api/claims" -> RemotePostClaim(store, req.body, t)
      [] req.route = "GET /api/claims" -> RemoteGetClaims(store, req.query, t)
      [] req.route = "DELETE /api/claims" -> RemoteDeleteClaim(store, req.query)
      [] req.route = "POST /api/locks" -> RemotePostLock(store, req.body, t)
      [] req.route = "DELETE /api/locks" -> RemoteDeleteLock(store, req.query)
      [] req.route = "POST /api/zones" -> RemotePostZone(store, req.body)
      [] req.route = "GET /api/zones" -> RemoteGetZones(store)
      [] req.route = "POST /api/tasks" -> RemotePostTask(store, req.body, t)
      [] req.route = "GET /api/tasks" -> RemoteGetTasks(store, req.query)

\* ------------------------------------------------------- facade: claim
\* All handlers give [out, store, served]: the tool result, the local store
\* after the handler and the backend whose answer the result reports.
ClaimInvalid(agentId, args) == agentId = "" \/ args.what = ""

ClaimRequest(agentId, args) ==
    [route |-> "POST /api/claims",
     body |-> [what |-> args.what, by |-> agentId, description |-> args.description]]

UsesFallback_On409(resp) == resp.thrown \/ resp.status = 409

\* The handler leaves the try block for the catch block when fetch or
\* res.json() throws, and only then.
UsesFallback(resp) == resp.thrown

ClaimTry(resp, agentId, args) ==
    IF resp.status = 409
    THEN [claimed |-> FALSE, by |-> resp.data.claimedBy, message |-> resp.data.message]
    ELSE [claimed |-> TRUE, what |-> args.what, by |-> agentId]

ClaimBlocked_StaleFlipped(existing, agentId) ==
    existing.found /\ existing.by # agentId /\ existing.stale

ClaimBlocked_BlocksOwner(existing, agentId) == existing.found /\ ~existing.stale

ClaimBlocked_IgnoresStale(existing, agentId) ==
    existing.found /\ existing.by # agentId

ClaimBlocked(existing, agentId) ==
    existing.found /\ existing.by # agentId /\ ~existing.stale

ClaimCatch(store, agentId, args, t) ==
    LET existing == CheckClaim(store.claims, args.what, t) IN
    IF ClaimBlocked(existing, agentId)
    THEN [out |-> [claimed |-> FALSE, by |-> existing.by, since |-> existing.since],
          store |-> store]
    ELSE [out |-> [claimed |-> TRUE, what |-> args.what, by |-> agentId],
          store |-> [store EXCEPT !.claims = StoreClaim(@, args.what, agentId, t)]]

\* The handler after the patch: [out, store, served], where served names the
\* branch (try: "remote", catch: "local") that produced the result.
NewClaim(resp, store, agentId, args, t) ==
    IF ~UsesFallback(resp)
    THEN [out |-> ClaimTry(resp, agentId, args), store |-> store, served |-> "remote"]
    ELSE LET r == ClaimCatch(store, agentId, args, t) IN
         [out |-> r.out, store |-> r.store, served |-> "local"]

\* The handler before the patch, which uses the in-memory store alone.
OldClaim(store, agentId, args, t) ==
    LET existing == CheckClaim(store.claims, args.what, t) IN
    IF ClaimInvalid(agentId, args)
    THEN [out |-> [text |-> "agentId and what required"], store |-> store]
    ELSE IF existing.found /\ existing.by # agentId /\ ~existing.stale
    THEN [out |-> [claimed |-> FALSE, by |-> existing.by, since |-> existing.since],
          store |-> store]
    ELSE [out |-> [claimed |-> TRUE, what |-> args.what, by |-> agentId],
          store |-> [store EXCEPT !.claims = StoreClaim(@, args.what, agentId, t)]]

\* ------------------------------------------------- facade: list-claims
ListClaimsRequest == [route |-> "GET /api/claims", query |-> EmptyMap]

ListClaimsTry(resp) == resp.data

ListClaimsCatch(store, args, t) ==
    LET claims == StoreListClaims(store.claims, args.includeStale, t) IN
    [out |-> [claims |-> claims, count |-> Cardinality(claims)], store |-> store]

NewListClaims(resp, store, args, t) ==
    IF ~UsesFallback(resp)
    THEN [out |-> ListClaimsTry(resp), store |-> store, served |-> "remote"]
    ELSE LET r == ListClaimsCatch(store, args, t) IN
         [out |-> r.out, store |-> r.store, served |-> "local"]

OldListClaims(store, args, t) ==
    LET claims == StoreListClaims(store.claims, args.includeStale, t) IN
    [out |-> [claims |-> claims, count |-> Cardinality(claims)], store |-> store]

\* ------------------------------------------------------ facade: release
ReleaseInvalid(agentId, args) == agentId = "" \/ args.what = ""

ReleaseRequest(agentId, args) ==
    [route |-> "DELETE /api/claims", query |-> [what |-> args.what, by |-> agentId]]

ReleaseTry(resp, agentId, args) ==
    [released |-> TRUE, what |-> args.what, by |-> agentId]

ReleaseCatch_AlwaysTrue(store, agentId, args) ==
    [out |-> [released |-> TRUE, what |-> args.what, by |-> agentId],
     store |-> [store EXCEPT !.claims = StoreReleaseClaim(@, args.what, agentId)]]

ReleaseCatch_KeepsClaim(store, agentId, args) ==
    [out |-> [released |-> ReleaseClaimOk(store.claims, args.what, agentId),
              what |-> args.what, by |-> agentId],
     store |-> store]

ReleaseCatch(store, agentId, args) ==
    LET released == ReleaseClaimOk(store.claims, args.what, agentId) IN
    [out |-> [released |-> released, what |-> args.what, by |-> agentId],
     store |-> [store EXCEPT !.claims = StoreReleaseClaim(@, args.what, agentId)]]

NewRelease(resp, store, agentId, args) ==
    IF ~UsesFallback(resp)
    THEN [out |-> ReleaseTry(resp, agentId, args), store |-> store, served |-> "remote"]
    ELSE LET r == ReleaseCatch(store, agentId, args) IN
         [out |-> r.out, store |-> r.store, served |-> "local"]

OldRelease(store, agentId, args) ==
    LET released == ReleaseClaimOk(store.claims, args.what, agentId) IN
    IF ReleaseInvalid(agentId, args)
    THEN [out |-> [text |-> "agentId and what required"], store |-> store]
    ELSE
    [out |-> [released |-> released, what |-> args.what, by |-> agentId],
     store |-> [store EXCEPT !.claims = StoreReleaseClaim(@, args.what, agentId)]]

\* --------------------------------------------------------- facade: lock
LockRequest(resourcePath, agentId, args) ==
    [route |-> "POST /api/locks",
     body |-> [resourcePath |-> resourcePath, lockedBy |-> agentId, reason |-> args.reason]]

\* JSON.stringify leaves out a key whose value is undefined.
LockTry(resp) ==
    IF "lock" \in DOMAIN resp.data
    THEN [success |-> TRUE, lock |-> resp.data.lock]
    ELSE [success |-> TRUE]

LockCatch(store, resourcePath, agentId, args, t) ==
    LET r == StoreAcquireLock(store.locks, resourcePath, agentId,
                              Opt(args, "resourceType", "file-lock"), args.reason, t) IN
    IF "error" \in DOMAIN r.result
    THEN [out |-> [success |-> FALSE, error |-> r.result.error], store |-> store]
    ELSE [out |-> [success |-> TRUE, lock |-> r.result],
          store |-> [store EXCEPT !.locks = r.locks]]

NewLockHandler(resp, store, resourcePath, agentId, args, t) ==
    IF ~UsesFallback(resp)
    THEN [out |-> LockTry(resp), store |-> store, served |-> "remote"]
    ELSE LET r == LockCatch(store, resourcePath, agentId, args, t) IN
         [out |-> r.out, store |-> r.store, served |-> "local"]

OldLockHandler(store, resourcePath, agentId, args, t) ==
    LET r == StoreAcquireLock(store.locks, resourcePath, agentId,
                              Opt(args, "resourceType", "file-lock"), args.reason, t) IN
    IF "error" \in DOMAIN r.result
    THEN [out |-> [success |-> FALSE, error |-> r.result.error], store |-> store]
    ELSE [out |-> [success |-> TRUE, lock |-> r.result],
          store |-> [store EXCEPT !.locks = r.locks]]

\* ------------------------------------------------------- facade: unlock
UnlockRequest(resourcePath) ==
    [route |-> "DELETE /api/locks", query |-> [resourcePath |-> resourcePath]]

UnlockTry(resourcePath) == [released |-> TRUE, resourcePath |-> resourcePath]

UnlockCatch(store, resourcePath, agentId) ==
    LET released == ReleaseLockOk(store.locks, resourcePath, agentId) IN
    [out |-> [released |-> released, resourcePath |-> resourcePath],
     store |-> [store EXCEPT !.locks = StoreReleaseLock(@, resourcePath, agentId)]]

NewUnlock(resp, store, resourcePath, agentId) ==
    IF ~UsesFallback(resp)
    THEN [out |-> UnlockTry(resourcePath), store |-> store, served |-> "remote"]
    ELSE LET r == UnlockCatch(store, resourcePath, agentId) IN
         [out |-> r.out, store |-> r.store, served |-> "local"]

OldUnlock(store, resourcePath, agentId) ==
    LET released == ReleaseLockOk(store.locks, resourcePath, agentId) IN
    [out |-> [released |-> released, resourcePath |-> resourcePath],
     store |-> [store EXCEPT !.locks = StoreReleaseLock(@, resourcePath, agentId)]]

\* --------------------------------------------------- facade: zone claim
ZoneClaimInvalid(args) == args.zoneId = "" \/ args.path = "" \/ args.owner = ""

ZoneClaimRequest(args) ==
    [route |-> "POST /api/zones",
     body |-> [zoneId |-> args.zoneId, path |-> args.path, owner |-> args.owner,
               description |-> args.description]]

ZoneClaimTry(resp) ==
    IF "zone" \in DOMAIN resp.data
    THEN [success |-> TRUE, zone |-> resp.data.zone]
    ELSE [success |-> TRUE]

ZoneClaimCatch(store, args) ==
    LET r == StoreClaimZone(store.zones, args.zoneId, args.path, args.owner,
                            args.description) IN
    IF "error" \in DOMAIN r.result
    THEN [out |-> [success |-> FALSE, error |-> r.result.error], store |-> store]
    ELSE [out |-> [success |-> TRUE, zone |-> r.result],
          store |-> [store EXCEPT !.zones = r.zones]]

NewZoneClaim(resp, store, args) ==
    IF ~UsesFallback(resp)
    THEN [out |-> ZoneClaimTry(resp), store |-> store, served |-> "remote"]
    ELSE LET r == ZoneClaimCatch(store, args) IN
         [out |-> r.out, store |-> r.store, served |-> "local"]

OldZoneClaim(store, args) ==
    LET r == StoreClaimZone(store.zones, args.zoneId, args.path, args.owner,
                            args.description) IN
    IF ZoneClaimInvalid(args)
    THEN [out |-> [text |-> "zoneId, path, and owner required"], store |-> store]
    ELSE IF "error" \in DOMAIN r.result
    THEN [out |-> [success |-> FALSE, error |-> r.result.error], store |-> store]
    ELSE [out |-> [success |-> TRUE, zone |-> r.result],
          store |-> [store EXCEPT !.zones = r.zones]]

\* ---------------------------------------------------- facade: zone list
ZoneListRequest == [route |-> "GET /api/zones"]

ZoneListTry(resp) == resp.data

ZoneListCatch(store) ==
    LET zones == StoreListZones(store.zones) IN
    [out |-> [zones |-> zones, count |-> Cardinality(zones)], store |-> store]

NewZoneList(resp, store) ==
    IF ~UsesFallback(resp)
    THEN [out |-> ZoneListTry(resp), store |-> store, served |-> "remote"]
    ELSE LET r == ZoneListCatch(store) IN
         [out |-> r.out, store |-> r.store, served |-> "local"]

OldZoneList(store) ==
    LET zones == StoreListZones(store.zones) IN
    [out |-> [zones |-> zones, count |-> Cardinality(zones)], store |-> store]

\* -------------------------------------------------- facade: task create
TaskCreateInvalid(args) == Opt(args, "title", "") = "" \/ Opt(args, "createdBy", "") = ""

TaskCreateBody_LowByDefault(args) ==
    [title |-> args.title, description |-> Opt(args, "description", Undefined),
     priority |-> Opt(args, "priority", "low"), status |-> "todo",
     createdBy |-> args.createdBy, assignee |-> Opt(args, "assignee", Undefined),
     tags |-> Opt(args, "tags", <<>>)]

TaskCreateBody(args) ==
    [title |-> args.title, description |-> Opt(args, "description", Undefined),
     priority |-> Opt(args, "priority", "medium"), status |-> "todo",
     createdBy |-> args.createdBy, assignee |-> Opt(args, "assignee", Undefined),
     tags |-> Opt(args, "tags", <<>>)]

TaskCreateRequest(args) == [route |-> "POST /api/tasks", body |-> TaskCreateBody(args)]

TaskCreateTry(resp) ==
    IF "task" \in DOMAIN resp.data
    THEN [created |-> TRUE, task |-> resp.data.task]
    ELSE [created |-> TRUE]

TaskCreateCatch(store, args, t) ==
    LET r == StoreCreateTask(store.tasks,
                 [title |-> args.title, description |-> Opt(args, "description", Undefined),
                  priority |-> Opt(args, "priority", "medium"), status |-> "todo",
                  createdBy |-> args.createdBy,
                  assignee |-> Opt(args, "assignee", Undefined),
                  tags |-> Opt(args, "tags", <<>>)], t) IN
    [out |-> [created |-> TRUE, task |-> r.task],
     store |-> [store EXCEPT !.tasks = r.tasks]]

NewTaskCreate(resp, store, args, t) ==
    IF ~UsesFallback(resp)
    THEN [out |-> TaskCreateTry(resp), store |-> store, served |-> "remote"]
    ELSE LET r == TaskCreateCatch(store, args, t) IN
         [out |-> r.out, store |-> r.store, served |-> "local"]

OldTaskCreate(store, args, t) ==
    LET r == StoreCreateTask(store.tasks,
                 [title |-> args.title, description |-> Opt(args, "description", Undefined),
                  priority |-> Opt(args, "priority", "medium"), status |-> "todo",
                  createdBy |-> args.createdBy,
                  assignee |-> Opt(args, "assignee", Undefined),
                  tags |-> Opt(args, "tags", <<>>)], t) IN
    IF TaskCreateInvalid(args)
    THEN [out |-> [text |-> "title and createdBy required"], store |-> store]
    ELSE [out |-> [created |-> TRUE, task |-> r.task],
          store |-> [store EXCEPT !.tasks = r.tasks]]

\* ---------------------------------------------------- facade: task list
TaskListRequest_NoFilter(args) == [route |-> "GET /api/tasks", query |-> EmptyMap]

TaskListRequest(args) ==
    [route |-> "GET /api/tasks",
     query |-> IF "status" \in DOMAIN args THEN [status |-> args.status] ELSE EmptyMap]

TaskListTry(resp) == resp.data

TaskListCatch(store, args) ==
    LET tasks == StoreListTasks(store.tasks, Opt(args, "status", Undefined)) IN
    [out |-> [tasks |-> tasks, count |-> Len(tasks)], store |-> store]

NewTaskList(resp, store, args) ==
    IF ~UsesFallback(resp)
    THEN [out |-> TaskListTry(resp), store |-> store, served |-> "remote"]
    ELSE LET r == TaskListCatch(store, args) IN
         [out |-> r.out, store |-> r.store, served |-> "local"]

OldTaskList(store, args) ==
    LET tasks == StoreListTasks(store.tasks, Opt(args, "status", Undefined)) IN
    [out |-> [tasks |-> tasks, count |-> Len(tasks)], store |-> store]

\* ------------------------------------------------- agent poll loop
\* processedMessageIds is a JavaScript Set: its elements in insertion order.
WindowCap == 100

Has(set, id) == \E i \in DOMAIN set : set[i] = id

\* ids.forEach(id => set.add(id)): Set.add puts a new id last and leaves an
\* id the set has where it is, so every id that neither the set nor an
\* earlier place of ids holds is added, in the order of ids.
AddAll_None(set, ids) == set

AddAll(set, ids) ==
    LET placed == [k \in DOMAIN ids |-> <<k, ids[k]>>]
        Added(p) == ~Has(set \o SubSeq(ids, 1, p[1] - 1), p[2])
        news == SelectSeq(placed, Added)
    IN set \o [k \in DOMAIN news |-> news[k][2]]

\* newMessages.filter(m => !processedMessageIds.has(m.id))
Unprocessed_All(newMessages, set) == newMessages

Unprocessed(newMessages, set) ==
    LET Fresh(id) == ~Has(set, id) IN SelectSeq(newMessages, Fresh)

\* Array.from(processedMessageIds).slice(0, processedMessageIds.size - 100)
ToDelete_Newest(set) == SubSeq(set, WindowCap + 1, Len(set))

ToDelete(set) == SubSeq(set, 1, Len(set) - WindowCap)

\* toDelete.forEach(id => processedMessageIds.delete(id)), when size > 100
TrimSet(set) ==
    LET Kept(id) == ~Has(ToDelete(set), id) IN
    IF Len(set) > WindowCap THEN SelectSeq(set, Kept) ELSE set

\* newMessages[newMessages.length - 1].timestamp; a message's timestamp is
\* its id.
LastTimestamp_OfFirst(newMessages) == newMessages[1]

LastTimestamp(newMessages) == newMessages[Len(newMessages)]

\* The poll loop: pc is its position in the loop body.  The other fields are
\* histories kept for the properties alone: forwarded and marked are the ids
\* handed to the context/response pipeline and the ids inserted in the set,
\* in order; fetched, startWindow and startForwarded are the batch of the
\* current cycle and the set and the length of forwarded when it was
\* fetched; lost are the ids that were marked when the process crashed
\* before it forwarded them, lostAt the length of forwarded at the crash.
NoPoll ==
    [pc |-> "poll", processedMessageIds |-> <<>>, newMessages |-> <<>>,
     unprocessedMessages |-> <<>>, lastProcessedTimestamp |-> 0, cycles |-> 0,
     forwarded |-> <<>>, marked |-> <<>>, fetched |-> <<>>, startWindow |-> <<>>,
     startForwarded |-> 0, lost |-> <<>>, lostAt |-> 0]

\* The batches a poll can fetch: a run of message ids that starts at the
\* first id ever sent or at the next unsent one, possibly with its first
\* message delivered twice.
Run(lo, len) == [i \in 1..len |-> lo + i - 1]

NextUnsent == 1 + Len(poll.marked)

BatchLens == {1, WindowCap, WindowCap + 1}

Batches ==
    {Run(lo, len) \o (IF twice THEN <<lo>> ELSE <<>>) :
        lo \in {1, NextUnsent}, len \in BatchLens, twice \in BOOLEAN}

OtherVars == <<now, remote, local, pending, last, hist, race, calls, files>>

\* newMessages.length > 0
Fetch ==
    /\ poll.pc = "poll"
    /\ poll.cycles < MaxCycles
    /\ \E batch \in Batches :
          poll' = [poll EXCEPT !.pc = "filter", !.newMessages = batch,
                               !.cycles = @ + 1, !.fetched = batch,
                               !.startWindow = poll.processedMessageIds,
                               !.startForwarded = Len(poll.forwarded)]
    /\ UNCHANGED OtherVars

\* The filter, and the `continue` when nothing is left.
Filter ==
    /\ poll.pc = "filter"
    /\ LET unprocessedMessages == Unprocessed(poll.newMessages, poll.processedMessageIds) IN
       poll' = IF unprocessedMessages = <<>>
               THEN [poll EXCEPT !.pc = "poll",
                       !.lastProcessedTimestamp = LastTimestamp(poll.newMessages),
                       !.newMessages = <<>>]
               ELSE [poll EXCEPT !.pc = "mark",
                       !.unprocessedMessages = unprocessedMessages]
    /\ UNCHANGED OtherVars

\* unprocessedMessages.forEach(m => processedMessageIds.add(m.id))
Mark ==
    /\ poll.pc = "mark"
    /\ LET added == AddAll(poll.processedMessageIds, poll.unprocessedMessages) IN
       poll' = [poll EXCEPT !.pc = "trim", !.processedMessageIds = added,
                  !.marked = @ \o SubSeq(added, Len(poll.processedMessageIds) + 1,
                                         Len(added))]
    /\ UNCHANGED OtherVars

\* Keep the last 100, then lastProcessedTimestamp.
Trim ==
    /\ poll.pc = "trim"
    /\ poll' = [poll EXCEPT !.pc = "forward",
                  !.processedMessageIds = TrimSet(@),
                  !.lastProcessedTimestamp = LastTimestamp(poll.newMessages)]
    /\ UNCHANGED OtherVars

\* contextManager.processMessages, checkForRenameCommand, shouldRespond and
\* the response context all take unprocessedMessages.
Forward ==
    /\ poll.pc = "forward"
    /\ poll' = [poll EXCEPT !.pc = "poll",
                  !.forwarded = @ \o poll.unprocessedMessages,
                  !.newMessages = <<>>, !.unprocessedMessages = <<>>]
    /\ UNCHANGED OtherVars

\* The agent process dies after it has marked a batch and before it has
\* handed it to the pipeline, and is started again: the module is loaded
\* anew, which makes processedMessageIds a new empty Set and
\* lastProcessedTimestamp null.  One crash is followed.
Crash ==
    /\ poll.pc \in {"trim", "forward"}
    /\ poll.lost = <<>>
    /\ poll' = [poll EXCEPT !.pc = "poll", !.processedMessageIds = <<>>,
                  !.newMessages = <<>>, !.unprocessedMessages = <<>>,
                  !.lastProcessedTimestamp = 0,
                  !.lost = poll.unprocessedMessages,
                  !.lostAt = Len(poll.forwarded)]
    /\ UNCHANGED OtherVars

\* ------------------------------------------------------ patch scripts
\* The text of a source file is the sequence of its blocks; Other is any
\* code that no pattern of the scripts matches.  A pattern is the sequence
\* of blocks of the script's old_ or new_ string: new_imports is the
\* API_BASE declaration followed by the whole of old_imports, new_vars is the
\* whole of old_vars followed by the processedMessageIds declaration, and
\* every other new_ string is a block that differs from its old_ string.
Other == "..."

\* `old in content`
Occurs(content, old) ==
    \E i \in 1..(Len(content) - Len(old) + 1) :
        SubSeq(content, i, i + Len(old) - 1) = old

\* content.replace(old, new): every occurrence, from the left.
RECURSIVE Replace(_, _, _)
Replace(content, old, new) ==
    IF Len(content) < Len(old) THEN content
    ELSE IF SubSeq(content, 1, Len(old)) = old
    THEN new \o Replace(SubSeq(content, Len(old) + 1, Len(content)), old, new)
    ELSE <<Head(content)>> \o Replace(Tail(content), old, new)

\* if old in content: content = content.replace(old, new), for each pattern
\* of the script in turn.
RECURSIVE Patch(_, _)
Patch(content, patches) ==
    IF patches = <<>> THEN content
    ELSE LET p == Head(patches) IN
         Patch(IF Occurs(content, p.old) THEN Replace(content, p.old, p.new) ELSE content,
               Tail(patches))

\* scripts/fix_mcp_to_http.py, on src/index.ts
FixMcpToHttp ==
    <<[old |-> <<"const server">>, new |-> <<"const API_BASE", "const server">>],
      [old |-> <<"claim: store">>, new |-> <<"claim: fetch, store">>],
      [old |-> <<"list-claims: store">>, new |-> <<"list-claims: fetch, store">>],
      [old |-> <<"release: store">>, new |-> <<"release: fetch, store">>],
      [old |-> <<"lock: store">>, new |-> <<"lock: fetch, store">>],
      [old |-> <<"unlock: store">>, new |-> <<"unlock: fetch, store">>],
      [old |-> <<"zone claim: store">>, new |-> <<"zone claim: fetch, store">>],
      [old |-> <<"zone list: store">>, new |-> <<"zone list: fetch, store">>],
      [old |-> <<"task create: store">>, new |-> <<"task create: fetch, store">>],
      [old |-> <<"task list: store">>, new |-> <<"task list: fetch, store">>]>>

\* scripts/fix_bigbrain_duplication.py, on src/autonomous-agent.ts
FixBigbrainDuplication ==
    <<[old |-> <<"let lastProcessedTimestamp, conversationHistory">>,
       new |-> <<"let lastProcessedTimestamp, conversationHistory",
                 "const processedMessageIds">>],
      [old |-> <<"processing: newMessages">>,
       new |-> <<"processing: unprocessedMessages">>],
      [old |-> <<"context: newMessages">>, new |-> <<"context: unprocessedMessages">>]>>

\* A source file a script may find: of the blocks its patterns match, those
\* in `there` are in the file, with other code around each.
Source(patches, there) ==
    LET Kept(i) == IF i \in there THEN patches[i].old ELSE <<>>
        From[i \in 0..Len(patches)] ==
            IF i = 0 THEN <<Other>> ELSE From[i - 1] \o Kept(i) \o <<Other>>
    IN From[Len(patches)]

\* A file: its text, its text before the last run of its script, and the
\* number of runs so far.
File(content) == [content |-> content, before |-> <<>>, runs |-> 0]

\* The files as the scripts were written for: every block is there.
Unpatched ==
    [index |-> File(Source(FixMcpToHttp, DOMAIN FixMcpToHttp)),
     agent |-> File(Source(FixBigbrainDuplication, DOMAIN FixBigbrainDuplication))]

Patched(file, patches) ==
    [content |-> Patch(file.content, patches), before |-> file.content,
     runs |-> file.runs + 1]

\* python scripts/fix_mcp_to_http.py: read src/index.ts, patch, write.
RunFixMcpToHttp ==
    /\ files.index.runs < MaxRuns
    /\ files' = [files EXCEPT !.index = Patched(@, FixMcpToHttp)]
    /\ UNCHANGED <<now, remote, local, pending, last, hist, race, calls, poll>>

\* python scripts/fix_bigbrain_duplication.py
RunFixBigbrainDuplication ==
    /\ files.agent.runs < MaxRuns
    /\ files' = [files EXCEPT !.agent = Patched(@, FixBigbrainDuplication)]
    /\ UNCHANGED <<now, remote, local, pending, last, hist, race, calls, poll>>

\* --------------------------------------------------------------- steps
\* What the handler sees of its fetch, for each way the network can behave:
\* the remote backend's answer; a 500 answer of a backend that failed before
\* touching its state; a throw with the remote untouched (unreachable); a
\* throw of res.json() on a body that is no JSON, the request handled; and
\* nothing at all (silent): the connection is accepted and never answered.
Seen(o, answer, parses) ==
    CASE o = "ok" -> answer
      [] o = "error" -> Answer(500, [error |-> "internal error"])
      [] o = "unreachable" -> Thrown
      [] o = "silent" -> Thrown
      [] o = "unparsable" -> IF parses THEN Thrown ELSE Answer(answer.status, [none |-> TRUE])

\* The request reaches the remote backend and is handled there unless the
\* fetch throws for want of a connection: when res.json() throws, the
\* backend has handled the request already.
Reaches_Always(o) == TRUE

Reaches(o) == o \in {"ok", "unparsable"}

\* The holder of a live claim on `what`, as a set.
LiveHolder(claims, what, t) ==
    IF what \in DOMAIN claims /\ ~IsStale(claims[what], t) THEN {claims[what].by} ELSE {}

\* The agents that hold a live claim on `what` in some backend.
LiveHolders(what) ==
    LiveHolder(remote.claims, what, now)
        \cup UNION {LiveHolder(local[p].claims, what, now) : p \in Procs}

\* What a backend holds under `key` before and after it serves a call.
View(m, key) == IF key \in DOMAIN m THEN [found |-> TRUE, by |-> m[key].by]
                                    ELSE [found |-> FALSE]

ClaimsView(store, what, t) ==
    [held |-> View(store.claims, what), live |-> LiveHolder(store.claims, what, t)]

LocksView(store, resourcePath) ==
    IF resourcePath \in DOMAIN store.locks
    THEN [found |-> TRUE, lock |-> store.locks[resourcePath]]
    ELSE [found |-> FALSE]

ZonesView(store, zoneId) ==
    IF zoneId \in DOMAIN store.zones
    THEN [found |-> TRUE, zone |-> store.zones[zoneId]]
    ELSE [found |-> FALSE]

\* What the call's history keeps of a backend: the entry under the key the
\* call is about.
ViewOf(op, store, args, t) ==
    CASE op \in {"claim", "release"} -> ClaimsView(store, args.what, t)
      [] op \in {"lock", "unlock"} -> LocksView(store, args.resourcePath)
      [] op = "zone-claim" -> ZonesView(store, args.zoneId)
      [] op \in {"task-create", "task-list"} -> [tasks |-> store.tasks]
      [] op = "list-claims" -> [claims |-> store.claims]
      [] OTHER -> EmptyMap

\* History of the claims on one key, kept for the properties alone.
\* freedAny: the holder's release has taken effect in some backend and no
\* claim has been handled since; freedAt: the backends where it has and that
\* have handled no claim since; garbled: some call on the key got an answer
\* that was no JSON, or a 500.
NoHistory == [freedAny |-> FALSE, freedAt |-> {}, garbled |-> FALSE]

\* Backend b has handled a claim or a release; done says whether the release
\* removed the claim.
Handled(h, b, op, done) ==
    [h EXCEPT !.freedAny = IF op = "claim" THEN FALSE ELSE @ \/ done,
              !.freedAt = IF op = "claim" THEN @ \ {b}
                          ELSE IF done THEN @ \cup {b} ELSE @]

Holds(store, what, agentId) ==
    what \in DOMAIN store.claims /\ store.claims[what].by = agentId

Released(before, after, what, agentId) ==
    Holds(before, what, agentId) /\ what \notin DOMAIN after.claims

\* answered: the call's result reports what backend b did.
Track(b, op, agentId, args, before, after, answered) ==
    IF op \in {"claim", "release"}
    THEN [hist EXCEPT ![args.what] =
            Handled(@, b, op, answered /\ Released(before, after, args.what, agentId))]
    ELSE hist

Garble(h, o, op, args) ==
    IF op \in {"claim", "release"} /\ o \in {"unparsable", "error"}
    THEN [h EXCEPT ![args.what].garbled = TRUE]
    ELSE h

\* What the call's history keeps of hist when backend b handles the call.
Tag(b, op, args) ==
    IF op \in {"claim", "release"}
    THEN [freedAny |-> hist[args.what].freedAny,
          freedHere |-> b \in hist[args.what].freedAt,
          garbled |-> hist[args.what].garbled]
    ELSE [freedAny |-> FALSE, freedHere |-> FALSE, garbled |-> FALSE]

NoTag == [freedAny |-> FALSE, freedHere |-> FALSE, garbled |-> FALSE]

\* History of the lock calls in flight together, kept for the properties
\* alone: members are the agents whose lock calls on one path overlap, outs
\* what each was told and by which backend.  An unlock ends the race.
NoRace == [members |-> {}, outs |-> {}]

RaceOpen(a, args) ==
    \E b \in race.members \ {a} :
        pending[b].op = "lock" /\ pending[b].args.resourcePath = args.resourcePath

RaceIssue(a, op, args) ==
    CASE op = "lock" -> IF a \notin race.members /\ RaceOpen(a, args)
                        THEN [race EXCEPT !.members = @ \cup {a}]
                        ELSE [members |-> {a}, outs |-> {}]
      [] op = "unlock" -> NoRace
      [] OTHER -> race

RaceComplete(a, c, r) ==
    IF c.op = "lock" /\ a \in race.members
    THEN [race EXCEPT !.outs = @ \cup
            {[agent |-> a, success |-> r.out.success,
              backend |-> IF r.served = "local" THEN c.proc
                          ELSE IF c.outcome = "ok" THEN "remote" ELSE "none"]}]
    ELSE race

\* The environment of a call: how the network may behave; whether the
\* specification issues its calls one at a time and at most `budget` of them;
\* and whether callers pass every field (strict) or may leave fields out.
Free == [outcomes |-> Outcomes, counted |-> FALSE, budget |-> 0, strict |-> TRUE]

Down == [outcomes |-> {"unreachable"}, counted |-> TRUE, budget |-> MaxCalls,
         strict |-> TRUE]

Loose == [outcomes |-> {"ok", "unreachable"}, counted |-> TRUE, budget |-> MaxCalls,
          strict |-> FALSE]

Serial == [outcomes |-> Outcomes, counted |-> TRUE, budget |-> MaxCalls,
           strict |-> TRUE]

\* The remote backend may also accept a connection and never answer it.
Hanging == [outcomes |-> {"ok", "unreachable", "silent"}, counted |-> FALSE,
            budget |-> 0, strict |-> TRUE]

\* The task tool, one call at a time and at most MaxOps of them.
Tasked == [outcomes |-> {"ok", "unreachable"}, counted |-> TRUE, budget |-> MaxOps,
           strict |-> TRUE]

\* Claims that age and are listed, one call at a time.
Listing == [outcomes |-> {"ok", "unreachable"}, counted |-> TRUE, budget |-> MaxCalls,
            strict |-> TRUE]

Admits(env, a) ==
    /\ pending[a] = NoCall
    /\ env.counted => calls < env.budget /\ \A b \in Agents : pending[b] = NoCall

Count(env) == IF env.counted THEN calls + 1 ELSE calls

\* The calls the catch block makes to the local store, in order.
CatchCalls(op, store, agentId, args, t) ==
    CASE op = "claim" ->
            IF ClaimBlocked(CheckClaim(store.claims, args.what, t), agentId)
            THEN <<"store.checkClaim">>
            ELSE <<"store.checkClaim", "store.claim">>
      [] op = "list-claims" -> <<"store.listClaims">>
      [] op = "release" -> <<"store.releaseClaim">>
      [] op = "lock" -> <<"store.acquireLock">>
      [] op = "unlock" -> <<"store.releaseLock">>
      [] op = "zone-claim" -> <<"store.claimZone">>
      [] op = "zone-list" -> <<"store.listZones">>
      [] op = "task-create" -> <<"store.createTask">>
      [] op = "task-list" -> <<"store.listTasks">>

\* Every access to a backend that a handler makes past its validation: the
\* one fetch of the try block, then the store calls of the catch block if
\* the try block threw.
Accesses(op, resp, store, agentId, args, t) ==
    <<"fetch">> \o (IF UsesFallback(resp) THEN CatchCalls(op, store, agentId, args, t)
                                          ELSE <<>>)

\* The handler sends its request; the remote backend handles it at once or
\* the request never reaches it.
Issue(a, p, env, op, agentId, args, req, parses, elsewhere) ==
    \E o \in env.outcomes :
        LET h == RemoteHandle(remote, req, now)
            applied == Reaches(o)
        IN /\ remote' = IF applied THEN h.store ELSE remote
           /\ pending' = [pending EXCEPT ![a] =
                            [op |-> op, proc |-> p, agentId |-> agentId, args |-> args,
                             outcome |-> o, resp |-> Seen(o, h.resp, parses),
                             pre |-> ViewOf(op, IF o = "ok" THEN remote ELSE EmptyStore, args, now),
                             post |-> ViewOf(op, IF o = "ok" THEN h.store ELSE EmptyStore, args, now),
                             elsewhere |-> IF o = "ok" THEN elsewhere ELSE {},
                             tag |-> IF o = "ok" THEN Tag("remote", op, args) ELSE NoTag,
                             issued |-> Tag("remote", op, args).freedAny,
                             wrote |-> env.counted /\ applied /\ h.store # remote]]
           /\ hist' = Garble(IF applied
                             THEN Track("remote", op, agentId, args, remote, h.store,
                                        o = "ok")
                             ELSE hist, o, op, args)
           /\ race' = RaceIssue(a, op, args)
           /\ calls' = Count(env)
           /\ last' = NoResult
           /\ UNCHANGED <<now, local, poll, files>>

\* A call whose arguments fail validation returns at once.
Reject(a, p, env, op, agentId, args, text) ==
    /\ calls' = Count(env)
    /\ last' = [op |-> op, agent |-> a, proc |-> p, agentId |-> agentId, args |-> args,
                outcome |-> "none", resp |-> Thrown, out |-> [text |-> text],
                served |-> "none", accesses |-> <<>>]
    /\ UNCHANGED <<now, remote, local, pending, hist, race, poll, files>>

\* The response arrives (or the fetch throws) and the handler returns r.
Complete(a, r, elsewhere) ==
    LET c == pending[a] IN
    /\ c.outcome # "silent"
    /\ local' = [local EXCEPT ![c.proc] = r.store]
    /\ last' = [op |-> c.op, agent |-> a, proc |-> c.proc, agentId |-> c.agentId,
                args |-> c.args, outcome |-> c.outcome, resp |-> c.resp, out |-> r.out,
                served |-> r.served,
                pre |-> IF r.served = "remote" THEN c.pre
                       ELSE ViewOf(c.op, local[c.proc], c.args, now),
                post |-> IF r.served = "remote" THEN c.post
                        ELSE ViewOf(c.op, r.store, c.args, now),
                elsewhere |-> IF r.served = "remote" THEN c.elsewhere ELSE elsewhere,
                tag |-> IF r.served = "remote" THEN c.tag ELSE Tag(c.proc, c.op, c.args),
                issued |-> c.issued,
                wrote |-> c.wrote,
                accesses |-> Accesses(c.op, c.resp, local[c.proc], c.agentId, c.args, now),
                localBefore |-> local[c.proc],
                others |-> [q \in Procs \ {c.proc} |-> local[q]]]
    /\ hist' = IF r.served = "local"
               THEN Track(c.proc, c.op, c.agentId, c.args, local[c.proc], r.store, TRUE)
               ELSE hist
    /\ race' = RaceComplete(a, c, r)
    /\ pending' = [pending EXCEPT ![a] = NoCall]
    /\ UNCHANGED <<now, remote, calls, poll, files>>

\* pending[a] is the call of agent a that awaits its response; last is the
\* call that has just returned (NoResult after any other step).  Of a call
\* that is issued alone, wrote says whether the remote backend changed its
\* state for it.
Init ==
    /\ now = 0
    /\ remote = EmptyStore
    /\ local = [p \in Procs |-> EmptyStore]
    /\ pending = [a \in Agents |-> NoCall]
    /\ last = NoResult
    /\ hist = [w \in Whats |-> NoHistory]
    /\ race = NoRace
    /\ calls = 0
    /\ poll = NoPoll
    /\ files = Unpatched

ClaimCall(a, p, env) ==
    /\ Admits(env, a)
    /\ \E agentId \in {a, ""}, what \in Whats \cup {""} :
        LET args == [what |-> what, description |-> "d"]
        IN IF ClaimInvalid(agentId, args)
           THEN Reject(a, p, env, "claim", agentId, args, "agentId and what required")
           ELSE Issue(a, p, env, "claim", agentId, args, ClaimRequest(agentId, args), TRUE,
                      LiveHolders(what))

ClaimReturn(a) ==
    /\ pending[a].op = "claim"
    /\ LET c == pending[a]
       IN Complete(a, NewClaim(c.resp, local[c.proc], c.agentId, c.args, now),
                   LiveHolders(c.args.what))

ListClaimsCall(a, p, env) ==
    /\ Admits(env, a)
    /\ \E includeStale \in BOOLEAN :
        Issue(a, p, env, "list-claims", a, [includeStale |-> includeStale],
              ListClaimsRequest, TRUE, {})

ListClaimsReturn(a) ==
    /\ pending[a].op = "list-claims"
    /\ LET c == pending[a] IN
       Complete(a, NewListClaims(c.resp, local[c.proc], c.args, now), {})

ReleaseCall(a, p, env) ==
    /\ Admits(env, a)
    /\ \E agentId \in {a, ""}, what \in Whats \cup {""} :
        LET args == [what |-> what]
        IN IF ReleaseInvalid(agentId, args)
           THEN Reject(a, p, env, "release", agentId, args, "agentId and what required")
           ELSE Issue(a, p, env, "release", agentId, args, ReleaseRequest(agentId, args),
                      TRUE, {})

ReleaseReturn(a) ==
    /\ pending[a].op = "release"
    /\ LET c == pending[a]
       IN Complete(a, NewRelease(c.resp, local[c.proc], c.agentId, c.args), {})

LockArgs ==
    {[resourcePath |-> path, reason |-> "r"] : path \in Paths}
        \cup {[resourcePath |-> path, reason |-> "r", resourceType |-> "dir-lock"] :
                path \in Paths}

\* The handler checks no field: a caller may leave resourcePath or agentId
\* out.
LooseLockArgs == {[resourcePath |-> "", reason |-> "r"]}

LockCall(a, p, env) ==
    /\ Admits(env, a)
    /\ \E args \in LockArgs \cup (IF env.strict THEN {} ELSE LooseLockArgs),
          agentId \in (IF env.strict THEN {a} ELSE {a, ""}) :
        Issue(a, p, env, "lock", agentId, args,
              LockRequest(args.resourcePath, agentId, args), TRUE, {})

LockReturn(a) ==
    /\ pending[a].op = "lock"
    /\ LET c == pending[a]
       IN Complete(a, NewLockHandler(c.resp, local[c.proc], c.args.resourcePath,
                                     c.agentId, c.args, now), {})

\* The unlock handler never reads the body of the response.
UnlockCall(a, p, env) ==
    /\ Admits(env, a)
    /\ \E path \in Paths \cup (IF env.strict THEN {} ELSE {""}),
          agentId \in (IF env.strict THEN {a} ELSE {a, ""}) :
        Issue(a, p, env, "unlock", agentId, [resourcePath |-> path], UnlockRequest(path),
              FALSE, {})

UnlockReturn(a) ==
    /\ pending[a].op = "unlock"
    /\ LET c == pending[a]
       IN Complete(a, NewUnlock(c.resp, local[c.proc], c.args.resourcePath, c.agentId), {})

ZoneArgs(a) ==
    {[zoneId |-> z, path |-> path, owner |-> a, description |-> "zone of " \o a] :
        z \in ZoneIds \cup {""}, path \in ZonePaths}

ZoneClaimCall(a, p, env) ==
    /\ Admits(env, a)
    /\ \E args \in ZoneArgs(a) :
        IF ZoneClaimInvalid(args)
        THEN Reject(a, p, env, "zone-claim", a, args, "zoneId, path, and owner required")
        ELSE Issue(a, p, env, "zone-claim", a, args, ZoneClaimRequest(args), TRUE, {})

ZoneClaimReturn(a) ==
    /\ pending[a].op = "zone-claim"
    /\ LET c == pending[a]
       IN Complete(a, NewZoneClaim(c.resp, local[c.proc], c.args), {})

ZoneListCall(a, p, env) ==
    /\ Admits(env, a)
    /\ Issue(a, p, env, "zone-list", a, EmptyMap, ZoneListRequest, TRUE, {})

ZoneListReturn(a) ==
    /\ pending[a].op = "zone-list"
    /\ LET c == pending[a] IN
       Complete(a, NewZoneList(c.resp, local[c.proc]), {})

TaskArgs(a) ==
    {[title |-> "t", createdBy |-> a],
     [title |-> "t", createdBy |-> a, description |-> "d", priority |-> "high",
      assignee |-> a, tags |-> <<"tag">>],
     [createdBy |-> a],
     [title |-> "t"]}

\* The number of tasks is capped at MaxTasks in every backend.
TaskCreateCall(a, p, env) ==
    /\ Admits(env, a)
    /\ Len(remote.tasks) < MaxTasks
    /\ Len(local[p].tasks) + Cardinality({b \in Agents : pending[b].op = "task-create"})
         < MaxTasks
    /\ \E args \in TaskArgs(a) :
        IF TaskCreateInvalid(args)
        THEN Reject(a, p, env, "task-create", a, args, "title and createdBy required")
        ELSE Issue(a, p, env, "task-create", a, args, TaskCreateRequest(args), TRUE, {})

TaskCreateReturn(a) ==
    /\ pending[a].op = "task-create"
    /\ LET c == pending[a] IN
       Complete(a, NewTaskCreate(c.resp, local[c.proc], c.args, now), {})

TaskListArgs == {EmptyMap} \cup {[status |-> st] : st \in {"todo", "in_progress", "done"}}

TaskListCall(a, p, env) ==
    /\ Admits(env, a)
    /\ \E args \in TaskListArgs :
        Issue(a, p, env, "task-list", a, args, TaskListRequest(args), TRUE, {})

TaskListReturn(a) ==
    /\ pending[a].op = "task-list"
    /\ LET c == pending[a] IN
       Complete(a, NewTaskList(c.resp, local[c.proc], c.args), {})

TasksOf(b) == IF b = "remote" THEN remote.tasks ELSE local[b].tasks

\* A status update handled by the task registry of backend b.
TaskUpdate(b, env) ==
    /\ calls < env.budget
    /\ \A a \in Agents : pending[a] = NoCall
    /\ \E id \in 1..MaxTasks, status \in TaskStatuses :
        LET r == StoreUpdateTaskStatus(TasksOf(b), id, status) IN
        /\ remote' = IF b = "remote" THEN [remote EXCEPT !.tasks = r.tasks] ELSE remote
        /\ local' = IF b = "remote" THEN local ELSE [local EXCEPT ![b].tasks = r.tasks]
        /\ last' = [op |-> "task-update", backend |-> b, id |-> id, to |-> status,
                    before |-> TasksOf(b), out |-> r.result]
        /\ calls' = calls + 1
        /\ UNCHANGED <<now, pending, hist, race, poll, files>>

Tick ==
    /\ now < MaxTime
    /\ now' = now + 1
    /\ last' = NoResult
    /\ UNCHANGED <<remote, local, pending, hist, race, calls, poll, files>>

\* Two agents share one MCP server process and the remote backend: the
\* claim registry.
NextClaims ==
    \/ Tick
    \/ \E a \in Agents, p \in Shared : ClaimCall(a, p, Free)
    \/ \E a \in Agents : ClaimReturn(a)
    \/ \E a \in Agents, p \in Shared : ReleaseCall(a, p, Free)
    \/ \E a \in Agents : ReleaseReturn(a)

SpecClaims == Init /\ [][NextClaims]_vars

\* The lock registry.
NextLocks ==
    \/ Tick
    \/ \E a \in Agents, p \in Shared : LockCall(a, p, Free)
    \/ \E a \in Agents : LockReturn(a)
    \/ \E a \in Agents, p \in Shared : UnlockCall(a, p, Free)
    \/ \E a \in Agents : UnlockReturn(a)

SpecLocks == Init /\ [][NextLocks]_vars

\* The zone registry.
NextZones ==
    \/ \E a \in Agents, p \in Shared : ZoneClaimCall(a, p, Free)
    \/ \E a \in Agents : ZoneClaimReturn(a)
    \/ \E a \in Agents, p \in Shared : ZoneListCall(a, p, Free)
    \/ \E a \in Agents : ZoneListReturn(a)

SpecZones == Init /\ [][NextZones]_vars

\* Every operation, in two processes, while the remote backend is
\* unreachable.
NextFallback ==
    \/ Tick
    \/ \E a \in Agents, p \in Procs : ClaimCall(a, p, Down)
    \/ \E a \in Agents : ClaimReturn(a)
    \/ \E a \in Agents, p \in Procs : ListClaimsCall(a, p, Down)
    \/ \E a \in Agents : ListClaimsReturn(a)
    \/ \E a \in Agents, p \in Procs : ReleaseCall(a, p, Down)
    \/ \E a \in Agents : ReleaseReturn(a)
    \/ \E a \in Agents, p \in Procs : LockCall(a, p, Down)
    \/ \E a \in Agents : LockReturn(a)
    \/ \E a \in Agents, p \in Procs : UnlockCall(a, p, Down)
    \/ \E a \in Agents : UnlockReturn(a)
    \/ \E a \in Agents, p \in Procs : ZoneClaimCall(a, p, Down)
    \/ \E a \in Agents : ZoneClaimReturn(a)
    \/ \E a \in Agents, p \in Procs : ZoneListCall(a, p, Down)
    \/ \E a \in Agents : ZoneListReturn(a)
    \/ \E a \in Agents, p \in Procs : TaskCreateCall(a, p, Down)
    \/ \E a \in Agents : TaskCreateReturn(a)
    \/ \E a \in Agents, p \in Procs : TaskListCall(a, p, Down)
    \/ \E a \in Agents : TaskListReturn(a)

SpecFallback == Init /\ [][NextFallback]_vars

\* Every operation that has required fields, issued one call at a time by
\* callers that may leave fields out.
NextValidate ==
    \/ \E a \in Agents, p \in Shared : ClaimCall(a, p, Loose)
    \/ \E a \in Agents : ClaimReturn(a)
    \/ \E a \in Agents, p \in Shared : ReleaseCall(a, p, Loose)
    \/ \E a \in Agents : ReleaseReturn(a)
    \/ \E a \in Agents, p \in Shared : LockCall(a, p, Loose)
    \/ \E a \in Agents : LockReturn(a)
    \/ \E a \in Agents, p \in Shared : UnlockCall(a, p, Loose)
    \/ \E a \in Agents : UnlockReturn(a)
    \/ \E a \in Agents, p \in Shared : ZoneClaimCall(a, p, Loose)
    \/ \E a \in Agents : ZoneClaimReturn(a)
    \/ \E a \in Agents, p \in Shared : TaskCreateCall(a, p, Loose)
    \/ \E a \in Agents : TaskCreateReturn(a)

SpecValidate == Init /\ [][NextValidate]_vars

\* Claims and zone lists against a remote backend that may never answer.  A
\* response that has arrived, or a fetch that has thrown, is handled: the
\* event loop runs every continuation that is ready.
NextHang ==
    \/ \E a \in Agents, p \in Shared : ClaimCall(a, p, Hanging)
    \/ \E a \in Agents : ClaimReturn(a)
    \/ \E a \in Agents, p \in Shared : ZoneListCall(a, p, Hanging)
    \/ \E a \in Agents : ZoneListReturn(a)

SpecHang ==
    /\ Init
    /\ [][NextHang]_vars
    /\ \A a \in Agents : WF_vars(ClaimReturn(a)) /\ WF_vars(ZoneListReturn(a))

\* Every operation, one call at a time, with every behaviour of the network.
NextOnce ==
    \/ \E a \in Agents, p \in Shared : ClaimCall(a, p, Serial)
    \/ \E a \in Agents : ClaimReturn(a)
    \/ \E a \in Agents, p \in Shared : ListClaimsCall(a, p, Serial)
    \/ \E a \in Agents : ListClaimsReturn(a)
    \/ \E a \in Agents, p \in Shared : ReleaseCall(a, p, Serial)
    \/ \E a \in Agents : ReleaseReturn(a)
    \/ \E a \in Agents, p \in Shared : LockCall(a, p, Serial)
    \/ \E a \in Agents : LockReturn(a)
    \/ \E a \in Agents, p \in Shared : UnlockCall(a, p, Serial)
    \/ \E a \in Agents : UnlockReturn(a)
    \/ \E a \in Agents, p \in Shared : ZoneClaimCall(a, p, Serial)
    \/ \E a \in Agents : ZoneClaimReturn(a)
    \/ \E a \in Agents, p \in Shared : ZoneListCall(a, p, Serial)
    \/ \E a \in Agents : ZoneListReturn(a)
    \/ \E a \in Agents, p \in Shared : TaskCreateCall(a, p, Serial)
    \/ \E a \in Agents : TaskCreateReturn(a)
    \/ \E a \in Agents, p \in Shared : TaskListCall(a, p, Serial)
    \/ \E a \in Agents : TaskListReturn(a)

SpecOnce == Init /\ [][NextOnce]_vars

\* The task registry: one caller creates, updates and lists tasks.
Solo == {"X"}

NextTasks ==
    \/ \E a \in Solo, p \in Shared : TaskCreateCall(a, p, Tasked)
    \/ \E a \in Solo : TaskCreateReturn(a)
    \/ \E b \in {"remote"} \cup Shared : TaskUpdate(b, Tasked)
    \/ \E a \in Solo, p \in Shared : TaskListCall(a, p, Tasked)
    \/ \E a \in Solo : TaskListReturn(a)

SpecTasks == Init /\ [][NextTasks]_vars

\* Claims age and are listed.
NextLists ==
    \/ Tick
    \/ \E a \in Agents, p \in Shared : ClaimCall(a, p, Listing)
    \/ \E a \in Agents : ClaimReturn(a)
    \/ \E a \in Agents, p \in Shared : ListClaimsCall(a, p, Listing)
    \/ \E a \in Agents : ListClaimsReturn(a)

SpecLists == Init /\ [][NextLists]_vars

\* The poll loop of one agent.
NextDedup == Fetch \/ Filter \/ Mark \/ Trim \/ Forward

SpecDedup == Init /\ [][NextDedup]_vars

\* The poll loop of an agent whose process may crash and be restarted.
NextCrash == Fetch \/ Filter \/ Mark \/ Trim \/ Forward \/ Crash

SpecCrash == Init /\ [][NextCrash]_vars

\* The patch scripts, run on any source files and run again.
InitPatch ==
    /\ now = 0
    /\ remote = EmptyStore
    /\ local = [p \in Procs |-> EmptyStore]
    /\ pending = [a \in Agents |-> NoCall]
    /\ last = NoResult
    /\ hist = [w \in Whats |-> NoHistory]
    /\ race = NoRace
    /\ calls = 0
    /\ poll = NoPoll
    /\ files \in {[index |-> File(Source(FixMcpToHttp, i)),
                     agent |-> File(Source(FixBigbrainDuplication, g))] :
                       i \in SUBSET DOMAIN FixMcpToHttp,
                       g \in SUBSET DOMAIN FixBigbrainDuplication}

NextPatch == RunFixMcpToHttp \/ RunFixBigbrainDuplication

SpecPatch == InitPatch /\ [][NextPatch]_vars

\* ------------------------------------------------------------ properties
\* The result reports what a backend did: the local store in the catch
\* block, or the remote backend in an answer the handler could read.
Answered(r) == r.served = "local" \/ (r.served = "remote" /\ r.outcome = "ok")

Foreign(holders, agentId) == holders \ {agentId}

\* C1 (as claimed): with the remote backend reachable or unreachable from
\* call to call, a claim by B while A holds a live claim on `what`, in
\* whichever backend, returns claimed=false naming A and is never told
\* claimed=true.
C1_ExclusiveAcrossBackends ==
    last.op = "claim" /\ Answered(last) /\ ~last.tag.garbled =>
        \A h \in Foreign(last.elsewhere, last.agentId) :
            last.out.claimed = FALSE /\ last.out.by = h

\* C1 (amended): a claim by B answered by a backend that itself holds a
\* live claim of A on `what` returns claimed=false naming A and leaves A's
\* claim in place.
C1_ExclusivePerBackend ==
    last.op = "claim" /\ Answered(last) =>
        \A h \in Foreign(last.pre.live, last.agentId) :
            /\ last.out.claimed = FALSE
            /\ last.out.by = h
            /\ last.post = last.pre

C1_Witness ==
    /\ last.op = "claim"
    /\ last.served = "local"
    /\ Foreign(last.pre.live, last.agentId) # {}
    /\ last.out.claimed = FALSE

\* C3: a 409 answer to a claim is returned as claimed=false with the remote's
\* owner and message and the local store is left alone; the local store
\* serves a claim only after the fetch or the parsing has thrown.
C3_ConflictIsNotFallback ==
    last.op = "claim" =>
        /\ (~last.resp.thrown /\ last.resp.status = 409) =>
              /\ last.out = [claimed |-> FALSE, by |-> last.resp.data.claimedBy,
                             message |-> last.resp.data.message]
              /\ last.out.by \in last.pre.live
              /\ last.served = "remote"
              /\ local[last.proc] = last.localBefore
        /\ last.served = "local" => last.outcome \in {"unreachable", "unparsable"}

C3_Witness ==
    /\ last.op = "claim"
    /\ ~last.resp.thrown
    /\ last.resp.status = 409
    /\ last.out.claimed = FALSE

\* What the handler before the patch, which knows the local store alone,
\* gives for the arguments of the call that has just returned.
OldHandler(r, t) ==
    CASE r.op = "claim" -> OldClaim(r.localBefore, r.agentId, r.args, t)
      [] r.op = "list-claims" -> OldListClaims(r.localBefore, r.args, t)
      [] r.op = "release" -> OldRelease(r.localBefore, r.agentId, r.args)
      [] r.op = "lock" ->
            OldLockHandler(r.localBefore, r.args.resourcePath, r.agentId, r.args, t)
      [] r.op = "unlock" -> OldUnlock(r.localBefore, r.args.resourcePath, r.agentId)
      [] r.op = "zone-claim" -> OldZoneClaim(r.localBefore, r.args)
      [] r.op = "zone-list" -> OldZoneList(r.localBefore)
      [] r.op = "task-create" -> OldTaskCreate(r.localBefore, r.args, t)
      [] r.op = "task-list" -> OldTaskList(r.localBefore, r.args)

\* C4: with the remote unreachable every operation returns what the local
\* store gives for the same arguments and changes the local store as the
\* local store's own operation does; a claim made this way is seen by
\* checkClaim in the same process and touches no other process's store.
C4_FallbackIsLocalStore ==
    last.op # "none" /\ last.served # "none" =>
        /\ last.served = "local"
        /\ last.out = OldHandler(last, now).out
        /\ local[last.proc] = OldHandler(last, now).store
        /\ \A q \in Procs \ {last.proc} : local[q] = last.others[q]
        /\ (last.op = "claim" /\ last.out.claimed) =>
              LET seen == CheckClaim(local[last.proc].claims, last.args.what, now) IN
              seen.found /\ seen.by = last.agentId /\ ~seen.stale

C4_Witness ==
    /\ last.op = "claim"
    /\ last.outcome = "unreachable"
    /\ last.out.claimed = TRUE
    /\ CheckClaim(local[last.proc].claims, last.args.what, now).found
    /\ \A q \in Procs \ {last.proc} :
          ~CheckClaim(local[q].claims, last.args.what, now).found

\* C5: a release by an agent that does not hold the claim returns
\* released=false and leaves the claim as it is, and the released value
\* returned is what the backend that answered did.
C5_ReleaseReportsBackend ==
    last.op = "release" /\ Answered(last) /\ last.pre.held.found =>
        /\ last.pre.held.by # last.agentId =>
              last.out.released = FALSE /\ last.post.held = last.pre.held
        /\ last.out.released = ~last.post.held.found

\* C6 (as claimed): with the remote backend reachable or unreachable from
\* call to call, once the holder's release has taken effect the next claim
\* on `what` made after it succeeds, whichever backend answers it.
C6_ClaimAfterReleaseAnywhere ==
    last.op = "claim" /\ Answered(last) /\ ~last.tag.garbled
        /\ last.issued /\ last.tag.freedAny => last.out.claimed = TRUE

\* C6 (amended): once the holder's release has taken effect in a backend, the
\* next claim on `what` answered by that backend succeeds and installs the
\* claimant; on one backend the holder's release returns released=true and
\* removes the claim, a release by another agent leaves the claim as it is,
\* and a claim against a live claim of another agent names that agent.
C6_ClaimAfterReleaseSameBackend ==
    /\ last.op = "claim" /\ Answered(last) /\ last.tag.freedHere =>
          /\ last.out.claimed = TRUE
          /\ last.post.held = [found |-> TRUE, by |-> last.agentId]
    /\ last.op = "claim" /\ Answered(last) =>
          \A h \in Foreign(last.pre.live, last.agentId) :
              last.out.claimed = FALSE /\ last.out.by = h
    /\ last.op = "release" /\ Answered(last) /\ last.pre.held.found =>
          IF last.pre.held.by = last.agentId
          THEN last.out.released = TRUE /\ ~last.post.held.found
          ELSE last.post.held = last.pre.held

C6_Witness ==
    /\ last.op = "claim"
    /\ Answered(last)
    /\ last.tag.freedHere
    /\ last.out.claimed = TRUE

\* A step in which backend b loses its claim on w, or the claim changes
\* hands, is b's handling of the holder's release or of the new holder's
\* claim.
HandledAt(b, op, agentId) ==
    IF b = "remote"
    THEN \E a \in Agents :
            /\ pending[a] = NoCall
            /\ pending'[a] # NoCall
            /\ pending'[a].op = op
            /\ pending'[a].agentId = agentId
    ELSE /\ last'.op = op
         /\ last'.served = "local"
         /\ last'.proc = b
         /\ last'.agentId = agentId

ClaimsOf(b) == IF b = "remote" THEN remote.claims ELSE local[b].claims

ClaimKept(b, w) ==
    LET before == ClaimsOf(b)
        after == ClaimsOf(b)'
    IN w \in DOMAIN before =>
          /\ w \notin DOMAIN after => HandledAt(b, "release", before[w].by)
          /\ (w \in DOMAIN after /\ after[w] # before[w]) =>
                HandledAt(b, "claim", after[w].by)

StaleClaimSuperseded ==
    last.op = "claim" /\ Answered(last) /\ last.pre.held.found
        /\ last.pre.held.by # last.agentId /\ last.pre.live = {} =>
            /\ last.out.claimed = TRUE
            /\ last.post.held = [found |-> TRUE, by |-> last.agentId]

StaleClaimShown ==
    \A b \in Backends, w \in Whats :
        (w \in DOMAIN ClaimsOf(b) /\ now - ClaimsOf(b)[w].since > StaleThreshold) =>
            LET seen == CheckClaim(ClaimsOf(b), w, now) IN
            seen.found /\ seen.stale /\ seen.by = ClaimsOf(b)[w].by

\* C7: a claim against a stale claim of another agent succeeds and replaces
\* the holder; a stale claim stays in its registry, shown as stale by
\* checkClaim, until a claim supersedes it or its holder releases it.
C7_StaleIsSupersedable ==
    /\ [](StaleClaimSuperseded /\ StaleClaimShown)
    /\ [][\A b \in Backends, w \in Whats : ClaimKept(b, w)]_vars

C7_Witness ==
    /\ last.op = "claim"
    /\ last.served = "local"
    /\ last.pre.held.found
    /\ last.pre.held.by # last.agentId
    /\ last.pre.live = {}
    /\ last.out.claimed = TRUE

\* C2: of the lock calls of several agents on one path that are in flight
\* together and answered by the same backend, exactly one is told success
\* and every other one is told success=false.
C2_OneLockWinner ==
    LET backends == {o.backend : o \in race.outs} IN
    (/\ Cardinality(race.members) > 1
     /\ {o.agent : o \in race.outs} = race.members
     /\ Cardinality(backends) = 1
     /\ "none" \notin backends)
        => Cardinality({o \in race.outs : o.success}) = 1

\* C8: an unlock by an agent that does not hold the lock returns
\* released=false and leaves the lock with its holder: only the release of
\* the agent that acquired a lock removes it.
C8_UnlockByHolderOnly ==
    last.op = "unlock" /\ Answered(last) /\ last.pre.found
        /\ last.pre.lock.lockedBy # last.agentId =>
            last.out.released = FALSE /\ last.post = last.pre

\* C9: a lock request on a path that another agent has locked, however long
\* ago, is told success=false with the error, and a caller is told
\* success=true only for a lock it holds.
C9_LockHeldIsRefused ==
    last.op = "lock" /\ Answered(last) =>
        /\ (last.pre.found /\ last.pre.lock.lockedBy # last.agentId) =>
              /\ last.out.success = FALSE
              /\ "error" \in DOMAIN last.out
              /\ last.post = last.pre
        /\ last.out.success =>
              last.post.found /\ last.post.lock.lockedBy = last.agentId

\* C10: a zone claim on a zoneId that exists under another owner is told
\* success=false with the error and leaves the zone as it is, and success=true
\* is told only when the backend holds the zone for that owner.
C10_ZoneConflictIsRefused ==
    last.op = "zone-claim" /\ Answered(last) =>
        /\ (last.pre.found /\ last.pre.zone.owner # last.args.owner) =>
              /\ last.out.success = FALSE
              /\ "error" \in DOMAIN last.out
              /\ last.post = last.pre
        /\ last.out.success =>
              last.post.found /\ last.post.zone.owner = last.args.owner

\* A call that lacks a field its operation requires.
LacksField(op, agentId, args) ==
    CASE op \in {"claim", "release"} -> agentId = "" \/ args.what = ""
      [] op \in {"lock", "unlock"} -> agentId = "" \/ args.resourcePath = ""
      [] op = "zone-claim" -> args.zoneId = "" \/ args.path = "" \/ args.owner = ""
      [] op = "task-create" -> "title" \notin DOMAIN args \/ "createdBy" \notin DOMAIN args
      [] OTHER -> FALSE

\* C11: a call that lacks a required field (claim, release: agentId, what;
\* lock, unlock: resourcePath, agent id; zone claim: zoneId, path, owner; task
\* create: title, createdBy) returns a validation error, sends no request to
\* the remote backend and makes no call to the local store.
C11_MissingFieldTouchesNothing ==
    /\ \A a \in Agents :
          pending[a] # NoCall =>
              ~LacksField(pending[a].op, pending[a].agentId, pending[a].args)
    /\ (last.op # "none" /\ LacksField(last.op, last.agentId, last.args)) =>
          /\ last.served = "none"
          /\ "text" \in DOMAIN last.out
          /\ last.accesses = <<>>

\* C12: every call eventually returns a result to its caller, also when the
\* remote backend accepts the connection and never answers.
C12_EveryCallReturns ==
    \A a \in Agents : (pending[a] # NoCall) ~> (pending[a] = NoCall)

IsFetch(x) == x = "fetch"

IsStoreCall(x) == x # "fetch"

Fetches(r) == SelectSeq(r.accesses, IsFetch)

StoreCalls(r) == SelectSeq(r.accesses, IsStoreCall)

\* C13 (as claimed): an operation makes at most one request to the remote
\* backend and at most one call to the local store, the local call only
\* after the remote attempt failed.
C13_OneRequestOneStoreCall ==
    last.op # "none" =>
        /\ Len(Fetches(last)) <= 1
        /\ Len(StoreCalls(last)) <= 1
        /\ StoreCalls(last) # <<>> => last.outcome \in {"unreachable", "unparsable"}

\* C13 (amended): an operation makes at most one request to the remote
\* backend and runs its local fallback at most once, after the one request
\* and only when the fetch or the parsing threw; the fallback calls no store
\* method twice: it is one store call, or for claim store.checkClaim followed
\* by store.claim unless the claim is blocked.
C13_OneRequestOneFallback ==
    last.op # "none" =>
        /\ Len(Fetches(last)) <= 1
        /\ last.served = "none" => last.accesses = <<>>
        /\ last.served = "remote" => last.accesses = <<"fetch">>
        /\ last.served = "local" =>
              /\ last.accesses[1] = "fetch"
              /\ last.outcome \in {"unreachable", "unparsable"}
              /\ StoreCalls(last) # <<>>
        /\ StoreCalls(last) # <<>> => last.served = "local"
        /\ \A i, j \in DOMAIN StoreCalls(last) :
              StoreCalls(last)[i] = StoreCalls(last)[j] => i = j
        /\ Len(StoreCalls(last)) > 1 =>
              /\ last.op = "claim"
              /\ StoreCalls(last) = <<"store.checkClaim", "store.claim">>
              /\ last.out.claimed = TRUE

C13_Witness ==
    /\ last.op = "claim"
    /\ last.outcome = "unparsable"
    /\ last.accesses = <<"fetch", "store.checkClaim", "store.claim">>

IdsOf(tasks) == {tasks[i].id : i \in DOMAIN tasks}

TaskRegistries == {"remote"} \cup Procs

\* The task that create has just returned, in the registry that made it.
CreatedTaskIsNew ==
    last.op = "task-create" /\ Answered(last) =>
        /\ "task" \in DOMAIN last.out
        /\ last.out.task.status = "todo"
        /\ last.out.task.priority =
              (IF "priority" \in DOMAIN last.args THEN last.args.priority ELSE "medium")
        /\ last.out.task.tags =
              (IF "tags" \in DOMAIN last.args THEN last.args.tags ELSE <<>>)
        /\ last.out.task.id \notin IdsOf(last.pre.tasks)
        /\ last.post.tasks = Append(last.pre.tasks, last.out.task)

IdsDistinct ==
    \A b \in TaskRegistries : \A i, j \in DOMAIN TasksOf(b) :
        TasksOf(b)[i].id = TasksOf(b)[j].id => i = j

IdsKept ==
    \A b \in TaskRegistries : \A i \in DOMAIN TasksOf(b) :
        /\ i \in DOMAIN TasksOf(b)'
        /\ TasksOf(b)'[i].id = TasksOf(b)[i].id

Allowed ==
    {<<"todo", "in_progress">>, <<"in_progress", "done">>, <<"todo", "blocked">>,
     <<"in_progress", "blocked">>, <<"blocked", "in_progress">>}

\* The answer to the status update that has just been handled.
UpdateAnswered ==
    last.op = "task-update" /\ last.id \in IdsOf(last.before) =>
        LET i == CHOOSE k \in DOMAIN last.before : last.before[k].id = last.id
            from == last.before[i].status
        IN IF <<from, last.to>> \in Allowed
           THEN /\ "error" \notin DOMAIN last.out
                /\ last.out.status = last.to
                /\ TasksOf(last.backend) = [last.before EXCEPT ![i].status = last.to]
           ELSE /\ last.out = [error |-> "InvalidTransition"]
                /\ TasksOf(last.backend) = last.before

StatusMoves ==
    \A b \in TaskRegistries : \A i \in DOMAIN TasksOf(b) :
        \/ TasksOf(b)'[i].status = TasksOf(b)[i].status
        \/ <<TasksOf(b)[i].status, TasksOf(b)'[i].status>> \in Allowed

\* C15: a task's status changes only along todo -> in_progress,
\* in_progress -> done, todo -> blocked, in_progress -> blocked and
\* blocked -> in_progress; any other requested change is answered
\* InvalidTransition and leaves the status as it is, so done is terminal.
C15_StatusMachine ==
    /\ [](UpdateAnswered)
    /\ [][StatusMoves]_vars

C15_Witness ==
    /\ last.op = "task-update"
    /\ last.id \in IdsOf(last.before)
    /\ \E i \in DOMAIN last.before :
          last.before[i].id = last.id /\ last.before[i].status = "done"
    /\ last.to = "todo"
    /\ last.out = [error |-> "InvalidTransition"]

HasStatus(tasks, status) ==
    LET InStatus(task) == task.status = status IN SelectSeq(tasks, InStatus)

\* C16: task list with a status filter returns exactly the tasks of the
\* backend that answers whose status is the filter, without a filter all of
\* them, and count is the number of tasks returned.
C16_ListFilters ==
    last.op = "task-list" /\ Answered(last) =>
        /\ last.out.tasks =
              (IF "status" \in DOMAIN last.args
               THEN HasStatus(last.pre.tasks, last.args.status)
               ELSE last.pre.tasks)
        /\ last.out.count = Len(last.out.tasks)

C16_Witness ==
    /\ last.op = "task-list"
    /\ last.served = "remote" /\ last.outcome = "ok"
    /\ "status" \in DOMAIN last.args
    /\ last.out.count = 1
    /\ Len(last.pre.tasks) = 2

\* C17: list-claims returns only claims that are not stale when includeStale
\* is false, and the stale claims as well when includeStale is true, whether
\* the remote backend or the local store answers.
C17_IncludeStaleHonoured ==
    last.op = "list-claims" /\ Answered(last) =>
        IF last.args.includeStale
        THEN {c.what : c \in last.out.claims} = DOMAIN last.pre.claims
        ELSE /\ \A c \in last.out.claims : ~c.stale
             /\ \A w \in DOMAIN last.pre.claims :
                   ~IsStale(last.pre.claims[w], now) =>
                       w \in {c.what : c \in last.out.claims}

\* C18: over any sequence of poll cycles, whose batches may overlap,
\* redeliver earlier messages and hold the same id twice, each message id is
\* forwarded to the context/response pipeline at most once.
C18_ForwardedAtMostOnce ==
    \A i, j \in DOMAIN poll.forwarded :
        poll.forwarded[i] = poll.forwarded[j] => i = j

\* C19: the dedup window never holds more than 100 ids, in any state the
\* poll loop reaches and for batches of any size.
C19_WindowNeverOverCap == Len(poll.processedMessageIds) <= WindowCap

LastMarked ==
    SubSeq(poll.marked,
           IF Len(poll.marked) > WindowCap THEN Len(poll.marked) - WindowCap + 1 ELSE 1,
           Len(poll.marked))

\* C20: after every poll cycle the window holds exactly the most recently
\* marked distinct ids, up to 100 of them, in the order they were marked: the
\* 101st distinct id removes the id marked earliest and leaves exactly 100,
\* and an id the window holds is not inserted again.
C20_WindowIsFifo ==
    /\ poll.pc \in {"poll", "forward", "filter"} =>
          /\ poll.processedMessageIds = LastMarked
          /\ Len(poll.marked) > WindowCap =>
                /\ Len(poll.processedMessageIds) = WindowCap
                /\ ~Has(poll.processedMessageIds,
                        poll.marked[Len(poll.marked) - WindowCap])
    /\ \A i, j \in DOMAIN poll.processedMessageIds :
          poll.processedMessageIds[i] = poll.processedMessageIds[j] => i = j

C20_Witness ==
    /\ poll.pc = "forward"
    /\ Len(poll.marked) = WindowCap + 1
    /\ Len(poll.processedMessageIds) = WindowCap
    /\ ~Has(poll.processedMessageIds, poll.marked[1])
    /\ Len(poll.unprocessedMessages) < Len(poll.newMessages)

\* The fetched messages whose id the window did not hold when the cycle
\* began, in fetch order.
Unseen(fetched, window) ==
    LET NotHeld(id) == \A i \in DOMAIN window : window[i] # id IN
    SelectSeq(fetched, NotHeld)

\* The ids the current cycle has handed to the pipeline.
ForwardedNow == SubSeq(poll.forwarded, poll.startForwarded + 1, Len(poll.forwarded))

\* C21: in every poll cycle the messages forwarded to the pipeline are exactly
\* the fetched messages whose id was not in the window when the cycle began,
\* in fetch order; when every fetched message is in the window nothing is
\* forwarded and the window is left as it was.
C21_ForwardsExactlyUnseen ==
    /\ poll.pc = "forward" =>
          poll.unprocessedMessages = Unseen(poll.fetched, poll.startWindow)
    /\ (poll.pc = "poll" /\ poll.cycles > 0) =>
          /\ ForwardedNow = Unseen(poll.fetched, poll.startWindow)
          /\ ForwardedNow = <<>> => poll.processedMessageIds = poll.startWindow
    /\ poll.pc # "poll" => ForwardedNow = <<>>

C21_Witness ==
    /\ poll.pc = "poll"
    /\ poll.startWindow # <<>>
    /\ ForwardedNow # <<>>
    /\ Len(ForwardedNow) < Len(poll.fetched)

\* C22: every message that is forwarded has been marked in the dedup window
\* before any step of the pipeline runs for its batch.
C22_MarkedBeforeForwarded ==
    /\ poll.pc = "forward" =>
          \A i \in DOMAIN poll.unprocessedMessages :
              Has(poll.marked, poll.unprocessedMessages[i])
    /\ \A i \in DOMAIN poll.forwarded : Has(poll.marked, poll.forwarded[i])
    /\ poll.pc \in {"filter", "mark"} => ForwardedNow = <<>>

C22_Witness ==
    /\ poll.pc = "forward"
    /\ poll.unprocessedMessages # <<>>
    /\ ForwardedNow = <<>>
    /\ Has(poll.processedMessageIds, poll.unprocessedMessages[Len(poll.unprocessedMessages)])

\* C29: after every poll cycle that fetched a batch, lastProcessedTimestamp is
\* the timestamp of the last message of the fetched batch, both when some
\* messages were forwarded and when all of them were in the window and the
\* cycle was skipped.
C29_TimestampOfLastFetched ==
    (poll.pc = "poll" /\ poll.cycles > 0) =>
        poll.lastProcessedTimestamp = poll.fetched[Len(poll.fetched)]

C29_Witness ==
    /\ poll.pc = "poll"
    /\ poll.cycles > 1
    /\ ForwardedNow = <<>>
    /\ Len(poll.fetched) > 1
    /\ poll.lastProcessedTimestamp = poll.fetched[Len(poll.fetched)]
    /\ poll.lastProcessedTimestamp # poll.fetched[1]

\* C23: a message that was marked when the agent process crashed, before it
\* was answered, is treated as handled after the restart: when it is
\* delivered again it is not forwarded to the pipeline.
C23_MarkedSurvivesCrash ==
    \A i \in DOMAIN poll.forwarded :
        i > poll.lostAt => ~Has(poll.lost, poll.forwarded[i])

ReclaimLocal ==
    last.op = "claim" /\ Answered(last) =>
        /\ (last.pre.held.found /\ last.pre.held.by = last.agentId) =>
              /\ last.out.claimed = TRUE
              /\ last.out.by = last.agentId
              /\ last.post.held = last.pre.held
              /\ (last.served = "local" /\ last.pre.live # {}) =>
                    local[last.proc] = last.localBefore
        /\ (last.served = "local" /\ last.out.claimed) =>
              LET again == NewClaim(Thrown, local[last.proc], last.agentId, last.args, now)
              IN again.out = last.out /\ again.store = local[last.proc]

\* The same for the step in which the remote backend handles a claim.
ReclaimRemote ==
    \A a \in Agents :
        (/\ pending[a] = NoCall
         /\ pending'[a] # NoCall
         /\ pending'[a].op = "claim"
         /\ pending'[a].outcome = "ok"
         /\ pending'[a].resp.status = 201) =>
            LET c == pending'[a]
                again == RemoteHandle(remote', ClaimRequest(c.agentId, c.args), now')
            IN /\ again.resp = c.resp
               /\ again.store = remote'
               /\ ClaimTry(c.resp, c.agentId, c.args).claimed = TRUE
               /\ (Holds(remote, c.args.what, c.agentId)
                     /\ LiveHolder(remote.claims, c.args.what, now) # {}) =>
                        remote' = remote

Success(out) ==
    \/ "claimed" \in DOMAIN out /\ out.claimed
    \/ "success" \in DOMAIN out /\ out.success
    \/ "created" \in DOMAIN out /\ out.created

\* C26: claimed=true, success=true and created=true are reported only when
\* the backend that answered recorded the claim, lock, zone or task for the
\* caller: a remote answer whose status is not the success status (409, 4xx,
\* 5xx) is never reported as success.
C26_SuccessMeansRecorded ==
    (/\ last.op \in {"claim", "lock", "zone-claim", "task-create"}
     /\ last.served = "remote"
     /\ ~last.resp.thrown
     /\ last.resp.status \notin {200, 201}) => ~Success(last.out)

\* C27: a write takes effect in at most one backend: when the remote backend
\* changed its state for an operation, that operation does not write the
\* local store as well, also when the remote's answer cannot be parsed.
C27_OneBackendPerWrite ==
    (/\ last.op \in {"claim", "release", "lock", "unlock", "zone-claim", "task-create"}
     /\ last.served # "none"
     /\ last.wrote) => local[last.proc] = last.localBefore

\* C28: whichever backend serves a lock call, the lock it records for the
\* caller has the resourceType the caller supplied, or file-lock when none
\* was supplied.
C28_LockTypeAsSupplied ==
    (/\ last.op = "lock"
     /\ Answered(last)
     /\ ~last.pre.found
     /\ last.post.found) =>
        last.post.lock.resourceType =
            (IF "resourceType" \in DOMAIN last.args THEN last.args.resourceType
             ELSE "file-lock")

\* C30: a patch script run a second time, on the file its first run produced,
\* leaves that file as it is: no declaration and no try/fallback wrapper is
\* inserted twice.
C30_PatchIsIdempotent ==
    /\ files.index.runs > 1 => files.index.content = files.index.before
    /\ files.agent.runs > 1 => files.agent.content = files.agent.before

====
